---- MODULE Spec2Model ----
(***************************************************************************)
(* PFX/P12 viewer (PfxEditorProvider): the password retry flow of          *)
(* resolveCustomEditor and its webview message handler, and parsePfx with  *)
(* its classification of parse failures.                                   *)
(*                                                                         *)
(* Strings whose content the program inspects (error messages, searched    *)
(* with includes) are sequences of one-character strings, so that          *)
(* toLowerCase, includes and escapeHtml are computed, not assumed.         *)
(***************************************************************************)
EXTENDS Integers, Sequences, FiniteSets, TLC

(***************************************************************************)
(* Bounds of the model.                                                    *)
(***************************************************************************)
\* clicks on the retry button that the model follows
MaxRetries == 2
\* webview messages posted and not yet delivered
MaxInbox == 2
\* parsePfx calls recorded by the pure-function specification
MaxCalls == 2

(***************************************************************************)
(* String primitives.                                                      *)
(***************************************************************************)
UpperChars ==
    <<"A", "B", "C", "D", "E", "F", "G", "H", "I", "J", "K", "L", "M",
      "N", "O", "P", "Q", "R", "S", "T", "U", "V", "W", "X", "Y", "Z">>

LowerChars ==
    <<"a", "b", "c", "d", "e", "f", "g", "h", "i", "j", "k", "l", "m",
      "n", "o", "p", "q", "r", "s", "t", "u", "v", "w", "x", "y", "z">>

\* String.prototype.toLowerCase, one character
ToLowerChar(c) ==
    IF \E i \in 1..Len(UpperChars) : UpperChars[i] = c
    THEN LowerChars[CHOOSE i \in 1..Len(UpperChars) : UpperChars[i] = c]
    ELSE c

\* String.prototype.toLowerCase
ToLowerCase(s) == [i \in 1..Len(s) |-> ToLowerChar(s[i])]

\* String.prototype.includes (case sensitive substring search)
Includes(s, needle) ==
    \E i \in 0..(Len(s) - Len(needle)) :
        \A j \in 1..Len(needle) : s[i + j] = needle[j]

\* String.prototype.replace(/c/g, rep) for a one-character pattern c
ReplaceAll(s, c, rep) ==
    IF \A j \in 1..Len(s) : s[j] # c THEN s
    ELSE LET start(i) ==
                 (i - 1) + (Len(rep) - 1)
                             * Cardinality({j \in 1..(i - 1) : s[j] = c})
             width(i) == IF s[i] = c THEN Len(rep) ELSE 1
             src(k) == CHOOSE i \in 1..Len(s) :
                           start(i) < k /\ k <= start(i) + width(i)
         IN  [k \in 1..start(Len(s) + 1) |->
                 IF s[src(k)] = c THEN rep[k - start(src(k))]
                 ELSE s[src(k)]]

\* PfxEditorProvider.escapeHtml: the five replacements in their order
escapeHtml(text) ==
    ReplaceAll(
      ReplaceAll(
        ReplaceAll(
          ReplaceAll(
            ReplaceAll(text, "&", <<"&", "a", "m", "p", ";">>),
            "<", <<"&", "l", "t", ";">>),
          ">", <<"&", "g", "t", ";">>),
        "\"", <<"&", "q", "u", "o", "t", ";">>),
      "'", <<"&", "#", "0", "3", "9", ";">>)

(***************************************************************************)
(* String constants of the program and the messages of the errors that     *)
(* the node-forge calls throw.                                             *)
(***************************************************************************)
\* 'invalid password'
NeedleInvalidPassword ==
    <<"i", "n", "v", "a", "l", "i", "d", " ", "p", "a", "s", "s", "w", "o",
      "r", "d">>

\* 'mac'
NeedleMac ==
    <<"m", "a", "c">>

\* 'pkcs12'
NeedlePkcs12 ==
    <<"p", "k", "c", "s", "1", "2">>

\* 'decrypt'
NeedleDecrypt ==
    <<"d", "e", "c", "r", "y", "p", "t">>

\* 'password'
NeedlePassword ==
    <<"p", "a", "s", "s", "w", "o", "r", "d">>

\* 'Invalid password or corrupted file. Please try again with the correct password.'
PasswordErrorText ==
    <<"I", "n", "v", "a", "l", "i", "d", " ", "p", "a", "s", "s", "w", "o",
      "r", "d", " ", "o", "r", " ", "c", "o", "r", "r", "u", "p", "t", "e",
      "d", " ", "f", "i", "l", "e", ".", " ", "P", "l", "e", "a", "s", "e",
      " ", "t", "r", "y", " ", "a", "g", "a", "i", "n", " ", "w", "i", "t",
      "h", " ", "t", "h", "e", " ", "c", "o", "r", "r", "e", "c", "t", " ",
      "p", "a", "s", "s", "w", "o", "r", "d", ".">>

\* 'Failed to parse PFX file: '
FailedPrefix ==
    <<"F", "a", "i", "l", "e", "d", " ", "t", "o", " ", "p", "a", "r", "s",
      "e", " ", "P", "F", "X", " ", "f", "i", "l", "e", ":", " ">>

\* 'Too few bytes to parse DER.'
MsgTooFewBytes ==
    <<"T", "o", "o", " ", "f", "e", "w", " ", "b", "y", "t", "e", "s", " ",
      "t", "o", " ", "p", "a", "r", "s", "e", " ", "D", "E", "R", ".">>

\* 'Unparsed DER bytes remain after ASN.1 parsing.'
MsgUnparsed ==
    <<"U", "n", "p", "a", "r", "s", "e", "d", " ", "D", "E", "R", " ", "b",
      "y", "t", "e", "s", " ", "r", "e", "m", "a", "i", "n", " ", "a", "f",
      "t", "e", "r", " ", "A", "S", "N", ".", "1", " ", "p", "a", "r", "s",
      "i", "n", "g", ".">>

\* 'Too few bytes to read ASN.1 value.'
MsgTooFewValue ==
    <<"T", "o", "o", " ", "f", "e", "w", " ", "b", "y", "t", "e", "s", " ",
      "t", "o", " ", "r", "e", "a", "d", " ", "A", "S", "N", ".", "1", " ",
      "v", "a", "l", "u", "e", ".">>

\* 'Cannot read PKCS#12 PFX. ASN.1 object is not an PKCS#12 PFX.'
MsgNotPfx ==
    <<"C", "a", "n", "n", "o", "t", " ", "r", "e", "a", "d", " ", "P", "K",
      "C", "S", "#", "1", "2", " ", "P", "F", "X", ".", " ", "A", "S", "N",
      ".", "1", " ", "o", "b", "j", "e", "c", "t", " ", "i", "s", " ", "n",
      "o", "t", " ", "a", "n", " ", "P", "K", "C", "S", "#", "1", "2", " ",
      "P", "F", "X", ".">>

\* 'PKCS#12 PFX of version other than 3 not supported.'
MsgVersion ==
    <<"P", "K", "C", "S", "#", "1", "2", " ", "P", "F", "X", " ", "o", "f",
      " ", "v", "e", "r", "s", "i", "o", "n", " ", "o", "t", "h", "e", "r",
      " ", "t", "h", "a", "n", " ", "3", " ", "n", "o", "t", " ", "s", "u",
      "p", "p", "o", "r", "t", "e", "d", ".">>

\* 'PKCS#12 uses unsupported MAC algorithm: 1.2.3'
MsgMacAlgorithm ==
    <<"P", "K", "C", "S", "#", "1", "2", " ", "u", "s", "e", "s", " ", "u",
      "n", "s", "u", "p", "p", "o", "r", "t", "e", "d", " ", "M", "A", "C",
      " ", "a", "l", "g", "o", "r", "i", "t", "h", "m", ":", " ", "1", ".",
      "2", ".", "3">>

\* 'PKCS#12 MAC could not be verified. Invalid password?'
MsgMac ==
    <<"P", "K", "C", "S", "#", "1", "2", " ", "M", "A", "C", " ", "c", "o",
      "u", "l", "d", " ", "n", "o", "t", " ", "b", "e", " ", "v", "e", "r",
      "i", "f", "i", "e", "d", ".", " ", "I", "n", "v", "a", "l", "i", "d",
      " ", "p", "a", "s", "s", "w", "o", "r", "d", "?">>

\* 'Unable to decrypt PKCS#12 SafeContents.'
MsgDecrypt ==
    <<"U", "n", "a", "b", "l", "e", " ", "t", "o", " ", "d", "e", "c", "r",
      "y", "p", "t", " ", "P", "K", "C", "S", "#", "1", "2", " ", "S", "a",
      "f", "e", "C", "o", "n", "t", "e", "n", "t", "s", ".">>

\* 'Unable to decrypt PKCS#8 ShroudedKeyBag, wrong password?'
MsgShrouded ==
    <<"U", "n", "a", "b", "l", "e", " ", "t", "o", " ", "d", "e", "c", "r",
      "y", "p", "t", " ", "P", "K", "C", "S", "#", "8", " ", "S", "h", "r",
      "o", "u", "d", "e", "d", "K", "e", "y", "B", "a", "g", ",", " ", "w",
      "r", "o", "n", "g", " ", "p", "a", "s", "s", "w", "o", "r", "d", "?">>

\* 'Cannot read password-based-encryption algorithm parameters. ASN.1 object is not a supported EncryptedPrivateKeyInfo.'
MsgPbeParams ==
    <<"C", "a", "n", "n", "o", "t", " ", "r", "e", "a", "d", " ", "p", "a",
      "s", "s", "w", "o", "r", "d", "-", "b", "a", "s", "e", "d", "-", "e",
      "n", "c", "r", "y", "p", "t", "i", "o", "n", " ", "a", "l", "g", "o",
      "r", "i", "t", "h", "m", " ", "p", "a", "r", "a", "m", "e", "t", "e",
      "r", "s", ".", " ", "A", "S", "N", ".", "1", " ", "o", "b", "j", "e",
      "c", "t", " ", "i", "s", " ", "n", "o", "t", " ", "a", " ", "s", "u",
      "p", "p", "o", "r", "t", "e", "d", " ", "E", "n", "c", "r", "y", "p",
      "t", "e", "d", "P", "r", "i", "v", "a", "t", "e", "K", "e", "y", "I",
      "n", "f", "o", ".">>

\* the message of the RangeError that Date.prototype.toISOString throws
\* 'Invalid time value'
MsgInvalidTime ==
    <<"I", "n", "v", "a", "l", "i", "d", " ", "t", "i", "m", "e", " ", "v",
      "a", "l", "u", "e">>

(***************************************************************************)
(* Documents.  A document is the byte buffer of PfxDocument.data,          *)
(* described by what the decoder finds in it.                              *)
(*   form      "empty"       zero bytes                                    *)
(*             "trailing"    a DER value followed by further bytes         *)
(*             "notPfx"      well-formed DER that is not a PFX             *)
(*             "badVersion"  a PFX whose version is not 3                  *)
(*             "pfx"         a PFX of version 3                            *)
(*   hasMac    MacData is present                                          *)
(*   encrypted the safe contents are encrypted-data                        *)
(*   password  the password the MAC and the encryption were made with      *)
(*   flaw      "macAlg"   MacData names a digest the library lacks         *)
(*             "pbe"      malformed PBES2 parameters of the encrypted data *)
(*             "lenient"  safe contents with a truncated value, which only *)
(*                        the non-strict decoder reads                     *)
(*   certBags, shroudedKeyBags, keyBags   the safe bags by type, in order  *)
(***************************************************************************)
\* the passwords a document is built with and a user types
Passwords == {"", "pw1", "pw2"}

(***************************************************************************)
(* Time.  Instants are counted in seconds (the program counts              *)
(* milliseconds; thirty days of milliseconds exceed 32-bit integers), so a *)
(* day is 60 * 60 * 24 of them.                                            *)
(***************************************************************************)
\* the divisor (1000 * 60 * 60 * 24) of daysUntilExpiry
DayLength == 60 * 60 * 24

\* the first instant the model looks at
Now0 == 100 * DayLength

\* the instants at which the clock is read
Instants == {Now0, Now0 + DayLength}

\* getTime() of an Invalid Date (NaN)
InvalidTime == -1

(***************************************************************************)
(* Certificates, as the library hands them over (forge.pki.Certificate).   *)
(*   serial      cert.serialNumber                                         *)
(*   notAfter    cert.validity.notAfter, InvalidTime for an Invalid Date   *)
(*   extensions  cert.extensions, each with                                *)
(*     id, name         the OID and the library's name for it ("" if none) *)
(*     hasAltNames, altNames   ext.altNames of a subjectAltName            *)
(*     flags            the properties the library sets to true: the key   *)
(*                      usages, the named purposes, and for a purpose it   *)
(*                      has no name for, the OID itself                    *)
(*     cA, pathLenConstraint   of a basicConstraints (NoPathLen: undefined)*)
(*     valueIsString, value    ext.value                                   *)
(***************************************************************************)
\* ext.pathLenConstraint === undefined
NoPathLen == -1

MakeExt(id, name, altNames, flags, cA, pathLenConstraint, value) ==
    [id |-> id, name |-> name, hasAltNames |-> name = "subjectAltName",
     altNames |-> altNames, flags |-> flags, cA |-> cA,
     pathLenConstraint |-> pathLenConstraint,
     valueIsString |-> value # "<object>", value |-> value]

\* a purpose OID the library has no name for
OidDocumentSigning == "1.3.6.1.4.1.311.10.3.12"

ExtBasicLeaf ==
    MakeExt("2.5.29.19", "basicConstraints", <<>>, {}, FALSE, NoPathLen,
            "der")

ExtBasicCa ==
    MakeExt("2.5.29.19", "basicConstraints", <<>>, {}, TRUE, 0, "der")

ExtBasicLeafPathLen ==
    MakeExt("2.5.29.19", "basicConstraints", <<>>, {}, FALSE, 1, "der")

ExtKeyUsage ==
    MakeExt("2.5.29.15", "keyUsage", <<>>,
            {"digitalSignature", "keyEncipherment"}, FALSE, NoPathLen, "der")

ExtKeyUsageNone ==
    MakeExt("2.5.29.15", "keyUsage", <<>>, {}, FALSE, NoPathLen, "der")

ExtExtKeyUsage ==
    MakeExt("2.5.29.37", "extKeyUsage", <<>>, {"serverAuth", "clientAuth"},
            FALSE, NoPathLen, "der")

ExtExtKeyUsageMixed ==
    MakeExt("2.5.29.37", "extKeyUsage", <<>>,
            {"codeSigning", OidDocumentSigning}, FALSE, NoPathLen, "der")

ExtSubjectAltName ==
    MakeExt("2.5.29.17", "subjectAltName",
            <<[type |-> 2, value |-> "localhost"],
              [type |-> 7, value |-> "127.0.0.1"],
              [type |-> 1, value |-> "a@example.com"]>>,
            {}, FALSE, NoPathLen, "der")

ExtSubjectAltNameEmpty ==
    MakeExt("2.5.29.17", "subjectAltName", <<>>, {}, FALSE, NoPathLen, "der")

ExtSubjectKeyIdentifier ==
    MakeExt("2.5.29.14", "subjectKeyIdentifier", <<>>, {}, FALSE, NoPathLen,
            "der")

\* an extension the library has no name for
ExtUnknown ==
    MakeExt("1.2.3.4", "", <<>>, {}, FALSE, NoPathLen, "der")

\* an extension with an empty value
ExtUnknownEmpty ==
    MakeExt("1.2.3.5", "", <<>>, {}, FALSE, NoPathLen, "")

\* an extension whose value is not a string
ExtUnknownObject ==
    MakeExt("1.2.3.6", "", <<>>, {}, FALSE, NoPathLen, "<object>")

\* the extension lists of the certificates the model looks at
ExtensionLists ==
    { <<>>,
      <<ExtBasicLeaf, ExtKeyUsage, ExtExtKeyUsage, ExtSubjectAltName,
        ExtSubjectKeyIdentifier>>,
      <<ExtExtKeyUsageMixed, ExtUnknown, ExtBasicCa>>,
      <<ExtKeyUsageNone, ExtSubjectAltNameEmpty, ExtUnknownEmpty,
        ExtUnknownObject, ExtBasicLeafPathLen>> }

\* an attribute of a distinguished name; "" for a property the library
\* leaves undefined (it sets shortName and name for the types it knows)
MakeAttr(shortName, name, type, value) ==
    [shortName |-> shortName, name |-> name, type |-> type, value |-> value]

AttrCN(value) == MakeAttr("CN", "commonName", "2.5.4.3", value)

AttrO(value) == MakeAttr("O", "organizationName", "2.5.4.10", value)

AttrOU(value) == MakeAttr("OU", "organizationalUnitName", "2.5.4.11", value)

\* a type the library has a name for, but no short name
AttrSerialName(value) == MakeAttr("", "serialName", "2.5.4.5", value)

\* a type the library does not know (unstructuredName)
AttrOid(value) == MakeAttr("", "", "1.2.840.113549.1.9.2", value)

\* cert.subject.attributes / cert.issuer.attributes
NameLists ==
    { <<>>,
      <<AttrCN("localhost")>>,
      <<AttrOU("Web"), AttrCN("example.com"), AttrO("Example"),
        AttrOU("Ops")>>,
      <<AttrSerialName("1"), AttrOid("a"), AttrSerialName("2"),
        AttrOid("b"), AttrOid("a")>> }

MakeCert(serial, subject, issuer, notAfter, extensions) ==
    [serial |-> serial, subject |-> subject, issuer |-> issuer,
     notAfter |-> notAfter, extensions |-> extensions]

\* bag.cert of a certificate bag whose certificate the library could not read
NoCert == MakeCert(0, <<>>, <<>>, InvalidTime, <<>>)

\* expires one second after Now0
Cert1 ==
    MakeCert(1, <<AttrCN("localhost")>>, <<AttrCN("localhost")>>, Now0 + 1,
             <<ExtBasicLeaf, ExtKeyUsage, ExtExtKeyUsage, ExtSubjectAltName,
               ExtSubjectKeyIdentifier>>)

\* expires thirty-one days after Now0
Cert2 ==
    MakeCert(2, <<AttrOU("Web"), AttrO("Example"), AttrOU("Ops")>>,
             <<AttrO("Example CA")>>, Now0 + 31 * DayLength,
             <<ExtExtKeyUsageMixed>>)

\* a certificate whose notAfter the library read as an Invalid Date
CertBadDate ==
    MakeCert(3, <<AttrCN("localhost")>>, <<AttrCN("localhost")>>,
             InvalidTime, <<>>)

\* the certificates in the bags of the documents
Certs == {Cert1, Cert2, CertBadDate}

\* notAfter of the certificates extractCertInfo is tried on, relative to Now0
NotAfterOffsets ==
    {0 - DayLength - 1, 0 - DayLength, 0 - 1, 0, 1, DayLength,
     30 * DayLength, 30 * DayLength + 1, 31 * DayLength}

\* the certificates extractCertInfo is tried on
CertPool ==
    { MakeCert(1, <<AttrCN("localhost")>>, <<AttrCN("localhost")>>,
               Now0 + offset, extensions) :
        offset \in NotAfterOffsets, extensions \in ExtensionLists }
      \cup { MakeCert(4, subject, issuer, Now0 + DayLength, <<>>) :
               subject \in NameLists, issuer \in NameLists }
      \cup Certs

\* bits = 0: a key the library does not read as RSA (bag.key is null)
BagChoices ==
    { [certBags |-> <<>>, shroudedKeyBags |-> <<>>, keyBags |-> <<>>],
      [certBags |-> <<[cert |-> Cert1]>>,
       shroudedKeyBags |-> <<[password |-> "pw1", bits |-> 2048]>>,
       keyBags |-> <<>>],
      [certBags |-> <<[cert |-> Cert2], [cert |-> NoCert],
                      [cert |-> Cert1]>>,
       shroudedKeyBags |-> <<[password |-> "", bits |-> 0],
                             [password |-> "", bits |-> 1024]>>,
       keyBags |-> <<[bits |-> 4096]>>],
      [certBags |-> <<[cert |-> Cert1], [cert |-> Cert2]>>,
       shroudedKeyBags |-> <<>>,
       keyBags |-> <<[bits |-> 0], [bits |-> 2048]>>],
      [certBags |-> <<[cert |-> Cert2], [cert |-> CertBadDate]>>,
       shroudedKeyBags |-> <<[password |-> "", bits |-> 2048]>>,
       keyBags |-> <<>>] }

NoBags == [certBags |-> <<>>, shroudedKeyBags |-> <<>>, keyBags |-> <<>>]

MakeDoc(form, hasMac, encrypted, password, flaw, bags) ==
    [form |-> form, hasMac |-> hasMac, encrypted |-> encrypted,
     password |-> password, flaw |-> flaw, certBags |-> bags.certBags,
     shroudedKeyBags |-> bags.shroudedKeyBags, keyBags |-> bags.keyBags]

StructureDocs ==
    { MakeDoc(f, FALSE, FALSE, "", "none", NoBags) :
        f \in {"empty", "trailing", "notPfx", "badVersion"} }

PfxDocs ==
    { d \in { MakeDoc("pfx", m, e, p, fl, b) :
                m \in BOOLEAN, e \in BOOLEAN, p \in {"", "pw1"},
                fl \in {"none", "macAlg", "pbe", "lenient"},
                b \in BagChoices } :
        /\ d.flaw = "macAlg" => d.hasMac
        /\ d.flaw = "pbe" => d.encrypted
        /\ d.password # "" => (d.hasMac \/ d.encrypted) }

Docs == StructureDocs \cup PfxDocs

(***************************************************************************)
(* The node-forge calls of parsePfx.  A call either returns a value or     *)
(* throws an Error with a message.                                         *)
(***************************************************************************)
Throw(message) == [threw |-> TRUE, message |-> message]

Return(value) == [threw |-> FALSE, value |-> value]

\* forge.asn1.fromDer(derBuffer)
fromDer(data) ==
    CASE data.form = "empty" -> Throw(MsgTooFewBytes)
      [] data.form = "trailing" -> Throw(MsgUnparsed)
      [] OTHER -> Return(data)

\* forge.pkcs12.pkcs12FromAsn1(asn1, strict, password): the checks in the
\* order the library makes them
pkcs12FromAsn1(asn1, strict, password) ==
    CASE asn1.form = "notPfx" -> Throw(MsgNotPfx)
      [] asn1.form = "badVersion" -> Throw(MsgVersion)
      [] asn1.hasMac /\ asn1.flaw = "macAlg" -> Throw(MsgMacAlgorithm)
      [] asn1.hasMac /\ password # asn1.password -> Throw(MsgMac)
      [] asn1.encrypted /\ asn1.flaw = "pbe" -> Throw(MsgPbeParams)
      [] asn1.encrypted /\ password # asn1.password -> Throw(MsgDecrypt)
      [] asn1.flaw = "lenient" /\ strict -> Throw(MsgTooFewValue)
      [] \E i \in 1..Len(asn1.shroudedKeyBags) :
             asn1.shroudedKeyBags[i].password # password
           -> Throw(MsgShrouded)
      [] OTHER -> Return([certBags |-> asn1.certBags,
                          shroudedKeyBags |-> asn1.shroudedKeyBags,
                          keyBags |-> asn1.keyBags])

(***************************************************************************)
(* parsePfx and extractCertInfo.                                           *)
(***************************************************************************)
\* PfxContents.privateKeyInfo; <<>> is undefined
NoKeyInfo == <<>>

RsaKeyInfo(bits) == <<"RSA", bits, "bits">>

EncryptedKeyInfo == <<"Private key present (encrypted)">>

\* PfxContents.error; <<>> is undefined (and falsy, as the empty string)
NoError == <<>>

\* the system clock, read by new Date()
VARIABLE clock

\* Math.floor(a / b) for b > 0
Ceil_Floor(a, b) == a \div b

\* Math.ceil(a / b) for b > 0
Ceil(a, b) == 0 - ((0 - a) \div b)

\* a string built from pieces, without the empty ones
Str(pieces) ==
    LET NonEmpty(piece) == piece # "" IN SelectSeq(pieces, NonEmpty)

RECURSIVE Join(_, _)
\* Array.prototype.join
Join(items, separator) ==
    IF items = <<>> THEN <<>>
    ELSE IF Len(items) = 1 THEN Head(items)
    ELSE Head(items) \o <<separator>> \o Join(Tail(items), separator)

\* the property of a keyUsage extension and the text pushed for it
KeyUsageTexts ==
    << <<"digitalSignature", "Digital Signature">>,
       <<"keyEncipherment", "Key Encipherment">>,
       <<"dataEncipherment", "Data Encipherment">>,
       <<"keyAgreement", "Key Agreement">>,
       <<"keyCertSign", "Certificate Signing">>,
       <<"cRLSign", "CRL Signing">> >>

\* the property of an extKeyUsage extension and the text pushed for it
ExtKeyUsageTexts ==
    << <<"serverAuth", "Server Authentication">>,
       <<"clientAuth", "Client Authentication">>,
       <<"codeSigning", "Code Signing">>,
       <<"emailProtection", "Email Protection">>,
       <<"timeStamping", "Time Stamping">> >>

\* the usages array: the texts of the properties that are set, in the order
\* of the if statements
Usages(ext, texts) ==
    LET IsSet(entry) == entry[1] \in ext.flags
        set == SelectSeq(texts, IsSet)
    IN  [i \in 1..Len(set) |-> <<set[i][2]>>]

\* the callback of ext.altNames.map
AltNameText(an) ==
    IF an.type = 2 THEN <<"DNS: ", an.value>>
    ELSE IF an.type = 7 THEN <<"IP: ", an.value>>
    ELSE <<an.value>>

\* the value computed for one extension, before the '(empty)' default
ExtensionValue(ext) ==
    IF ext.name = "subjectAltName" /\ ext.hasAltNames
    THEN Str(Join([i \in 1..Len(ext.altNames) |->
                      AltNameText(ext.altNames[i])], ", "))
    ELSE IF ext.name = "keyUsage"
    THEN Str(Join(Usages(ext, KeyUsageTexts), ", "))
    ELSE IF ext.name = "extKeyUsage"
    THEN Str(Join(Usages(ext, ExtKeyUsageTexts), ", "))
    ELSE IF ext.name = "basicConstraints"
    THEN IF ext.cA
         THEN IF ext.pathLenConstraint # NoPathLen
              THEN <<"CA: true", ", Path Length: ",
                     ToString(ext.pathLenConstraint)>>
              ELSE <<"CA: true">>
         ELSE <<"CA: false">>
    ELSE IF ext.valueIsString
    THEN Str(<<ext.value>>)
    ELSE <<"JSON.stringify: ", ext.value>>

\* the object pushed without the '(empty)' default
ExtensionInfo_NoDefault(ext) ==
    [name |-> IF ext.name # "" THEN ext.name ELSE ext.id,
     value |-> ExtensionValue(ext)]

\* the object pushed to extensions for one extension
ExtensionInfo(ext) ==
    [name |-> IF ext.name # "" THEN ext.name ELSE ext.id,
     value |-> IF ExtensionValue(ext) # <<>>
               THEN ExtensionValue(ext) ELSE <<"(empty)">>]

\* const name = attr.shortName || attr.name || attr.type || 'unknown'
AttributeName(attr) ==
    IF attr.shortName # "" THEN attr.shortName
    ELSE IF attr.name # "" THEN attr.name
    ELSE IF attr.type # "" THEN attr.type
    ELSE "unknown"

\* an assignment that leaves a property that is already there as it is
Assign_KeepsFirst(object, name, value) ==
    IF \E p \in 1..Len(object) : object[p].name = name
    THEN object
    ELSE Append(object, [name |-> name, value |-> value])

\* object[name] = value on an object kept as the sequence of its
\* properties, in the order Object.entries gives them
Assign(object, name, value) ==
    IF \E p \in 1..Len(object) : object[p].name = name
    THEN [p \in 1..Len(object) |->
             IF object[p].name = name
             THEN [name |-> name, value |-> value]
             ELSE object[p]]
    ELSE Append(object, [name |-> name, value |-> value])

RECURSIVE AssignAttributes(_, _)
\* the loop over cert.subject.attributes (cert.issuer.attributes)
AssignAttributes(object, attributes) ==
    IF attributes = <<>> THEN object
    ELSE AssignAttributes(
             Assign(object, AttributeName(Head(attributes)),
                    Head(attributes).value),
             Tail(attributes))

\* extractCertInfo with a certificate counted as expired at the very
\* instant of its notAfter
extractCertInfoAt_ExpiredAtNotAfter(cert, now) ==
    IF cert.notAfter = InvalidTime THEN Throw(MsgInvalidTime)
    ELSE Return(
           [subject |-> AssignAttributes(<<>>, cert.subject),
            issuer |-> AssignAttributes(<<>>, cert.issuer),
            serialNumber |-> cert.serial,
            validTo |-> cert.notAfter,
            extensions |-> [i \in 1..Len(cert.extensions) |->
                               ExtensionInfo(cert.extensions[i])],
            isExpired |-> cert.notAfter <= now,
            daysUntilExpiry |-> Ceil(cert.notAfter - now, DayLength)])

\* PfxEditorProvider.extractCertInfo(cert) at the instant now: the
\* CertificateInfo, or the RangeError of validTo.toISOString()
extractCertInfoAt(cert, now) ==
    IF cert.notAfter = InvalidTime THEN Throw(MsgInvalidTime)
    ELSE Return(
           [subject |-> AssignAttributes(<<>>, cert.subject),
            issuer |-> AssignAttributes(<<>>, cert.issuer),
            serialNumber |-> cert.serial,
            validTo |-> cert.notAfter,
            extensions |-> [i \in 1..Len(cert.extensions) |->
                               ExtensionInfo(cert.extensions[i])],
            isExpired |-> cert.notAfter < now,
            daysUntilExpiry |-> Ceil(cert.notAfter - now, DayLength)])

\* PfxEditorProvider.extractCertInfo(cert)
extractCertInfo(cert) == extractCertInfoAt(cert, clock)

RECURSIVE CertificatesOf_Reversed(_)
\* the loop putting each CertificateInfo in front of the earlier ones
CertificatesOf_Reversed(certBagArray) ==
    IF certBagArray = <<>> THEN Return(<<>>)
    ELSE LET bag == Head(certBagArray) IN
         IF bag.cert # NoCert
         THEN LET certInfo == extractCertInfo(bag.cert) IN
              IF certInfo.threw THEN certInfo
              ELSE LET rest == CertificatesOf_Reversed(Tail(certBagArray)) IN
                   IF rest.threw THEN rest
                   ELSE Return(rest.value \o <<certInfo.value>>)
         ELSE CertificatesOf_Reversed(Tail(certBagArray))

RECURSIVE CertificatesOf(_)
\* the loop over certBagArray: one CertificateInfo per bag with a cert, or
\* the error that extractCertInfo throws for one of them
CertificatesOf(certBagArray) ==
    IF certBagArray = <<>> THEN Return(<<>>)
    ELSE LET bag == Head(certBagArray) IN
         IF bag.cert # NoCert
         THEN LET certInfo == extractCertInfo(bag.cert) IN
              IF certInfo.threw THEN certInfo
              ELSE LET rest == CertificatesOf(Tail(certBagArray)) IN
                   IF rest.threw THEN rest
                   ELSE Return(<<certInfo.value>> \o rest.value)
         ELSE CertificatesOf(Tail(certBagArray))

\* the shrouded key bags: the first one decides privateKeyInfo
ShroudedKeyInfo(keyBagArray, before) ==
    IF Len(keyBagArray) > 0
    THEN IF keyBagArray[1].bits # 0
         THEN RsaKeyInfo(keyBagArray[1].bits)
         ELSE EncryptedKeyInfo
    ELSE before

\* the plain key bags: the first one with a key overwrites privateKeyInfo
PlainKeyInfo(plainKeyBagArray, before) ==
    IF Len(plainKeyBagArray) > 0 /\ plainKeyBagArray[1].bits # 0
    THEN RsaKeyInfo(plainKeyBagArray[1].bits)
    ELSE before

\* the test without the 'decrypt' alternative
IsPasswordError_NoDecrypt(errorMessage) ==
    \/ Includes(ToLowerCase(errorMessage), NeedleInvalidPassword)
    \/ Includes(ToLowerCase(errorMessage), NeedleMac)
    \/ Includes(ToLowerCase(errorMessage), NeedlePkcs12)

\* the test without toLowerCase
IsPasswordError_CaseSensitive(errorMessage) ==
    \/ Includes(errorMessage, NeedleInvalidPassword)
    \/ Includes(errorMessage, NeedleMac)
    \/ Includes(errorMessage, NeedlePkcs12)
    \/ Includes(errorMessage, NeedleDecrypt)

\* the error message test of the catch block
IsPasswordError(errorMessage) ==
    \/ Includes(ToLowerCase(errorMessage), NeedleInvalidPassword)
    \/ Includes(ToLowerCase(errorMessage), NeedleMac)
    \/ Includes(ToLowerCase(errorMessage), NeedlePkcs12)
    \/ Includes(ToLowerCase(errorMessage), NeedleDecrypt)

\* a catch block that reports every failure as the password error
CatchParseError_AlwaysPassword(errorMessage) ==
    [certificates |-> <<>>, hasPrivateKey |-> FALSE,
     privateKeyInfo |-> NoKeyInfo,
     error |-> PasswordErrorText,
     isPasswordProtected |-> FALSE]

\* a catch block that still reports the private key of the container
CatchParseError_KeepsKey(errorMessage) ==
    [certificates |-> <<>>, hasPrivateKey |-> TRUE,
     privateKeyInfo |-> EncryptedKeyInfo,
     error |-> IF IsPasswordError(errorMessage)
               THEN PasswordErrorText
               ELSE FailedPrefix \o errorMessage,
     isPasswordProtected |-> FALSE]

\* the catch block of parsePfx
CatchParseError(errorMessage) ==
    [certificates |-> <<>>, hasPrivateKey |-> FALSE,
     privateKeyInfo |-> NoKeyInfo,
     error |-> IF IsPasswordError(errorMessage)
               THEN PasswordErrorText
               ELSE FailedPrefix \o errorMessage,
     isPasswordProtected |-> FALSE]

\* the bag walk of parsePfx on a parsed container whose certificates were
\* extracted
ContentsOf(p12, certificates) ==
    [certificates |-> certificates,
     hasPrivateKey |-> Len(p12.shroudedKeyBags) > 0 \/ Len(p12.keyBags) > 0,
     privateKeyInfo |->
         PlainKeyInfo(p12.keyBags,
                      ShroudedKeyInfo(p12.shroudedKeyBags, NoKeyInfo)),
     error |-> NoError,
     isPasswordProtected |-> FALSE]

\* parsePfx with the loop over the certificate bags outside the try
\* block: what extractCertInfo throws leaves parsePfx as an exception
parsePfx_ExtractionEscapes(data, password) ==
    LET asn1 == fromDer(data) IN
    IF asn1.threw THEN CatchParseError(asn1.message)
    ELSE LET nonStrict == pkcs12FromAsn1(asn1.value, FALSE, password)
             p12 == IF nonStrict.threw
                    THEN pkcs12FromAsn1(asn1.value, TRUE, password)
                    ELSE nonStrict
         IN  IF p12.threw THEN CatchParseError(p12.message)
             ELSE LET certificates == CertificatesOf(p12.value.certBags) IN
                  IF certificates.threw
                  THEN certificates
                  ELSE ContentsOf(p12.value, certificates.value)

\* PfxEditorProvider.parsePfx(data, password)
parsePfx(data, password) ==
    LET asn1 == fromDer(data) IN
    IF asn1.threw THEN CatchParseError(asn1.message)
    ELSE LET nonStrict == pkcs12FromAsn1(asn1.value, FALSE, password)
             p12 == IF nonStrict.threw
                    THEN pkcs12FromAsn1(asn1.value, TRUE, password)
                    ELSE nonStrict
         IN  IF p12.threw THEN CatchParseError(p12.message)
             ELSE LET certificates == CertificatesOf(p12.value.certBags) IN
                  IF certificates.threw
                  THEN CatchParseError(certificates.message)
                  ELSE ContentsOf(p12.value, certificates.value)

(***************************************************************************)
(* The webview content.  getHtmlForWebview embeds renderContent(contents); *)
(* the rendered view is kept as a record of what the page shows.           *)
(***************************************************************************)
\* webviewPanel.webview.html before resolveCustomEditor assigns it
BlankHtml ==
    [view |-> "blank", headerIcon |-> "none", message |-> <<>>,
     retryButton |-> FALSE, certCount |-> 0, hasPrivateKey |-> FALSE,
     privateKeyInfo |-> NoKeyInfo, certificates |-> <<>>]

\* the badge with 'expiring-soon' for 0 < daysUntilExpiry <= 30 only
statusClass_PositiveDays(cert) ==
    IF cert.isExpired THEN "expired"
    ELSE IF 0 < cert.daysUntilExpiry /\ cert.daysUntilExpiry <= 30
         THEN "expiring-soon" ELSE "valid"

\* the badge with 'expiring-soon' for daysUntilExpiry < 30 only
statusClass_Under30(cert) ==
    IF cert.isExpired THEN "expired"
    ELSE IF cert.daysUntilExpiry < 30 THEN "expiring-soon" ELSE "valid"

\* the status badge of renderCertificate: statusClass
statusClass(cert) ==
    IF cert.isExpired THEN "expired"
    ELSE IF cert.daysUntilExpiry <= 30 THEN "expiring-soon" ELSE "valid"

\* the status badge of renderCertificate: statusText
statusText(cert) ==
    IF cert.isExpired THEN <<"Expired">>
    ELSE IF cert.daysUntilExpiry <= 30
         THEN <<"Expires in ", ToString(cert.daysUntilExpiry), " days">>
         ELSE <<"Valid">>

\* PfxEditorProvider.renderCertificate(cert, index): what the card shows
renderCertificate(cert) ==
    [serialNumber |-> cert.serialNumber,
     statusClass |-> statusClass(cert),
     statusText |-> statusText(cert)]

\* renderContent with the retry button in the content view as well
renderContent_RetryAlways(contents) ==
    IF Len(contents.error) > 0
    THEN [view |-> "error", headerIcon |-> "lock",
          message |-> escapeHtml(contents.error),
          retryButton |-> TRUE, certCount |-> 0, hasPrivateKey |-> FALSE,
          privateKeyInfo |-> NoKeyInfo, certificates |-> <<>>]
    ELSE [view |-> "content",
          headerIcon |-> IF contents.isPasswordProtected
                         THEN "lock" ELSE "cert",
          message |-> <<>>, retryButton |-> TRUE,
          certCount |-> Len(contents.certificates),
          hasPrivateKey |-> contents.hasPrivateKey,
          privateKeyInfo |-> contents.privateKeyInfo,
          certificates |-> [i \in 1..Len(contents.certificates) |->
                              renderCertificate(contents.certificates[i])]]

\* renderContent with no retry button in the error view
renderContent_NoRetryButton(contents) ==
    IF Len(contents.error) > 0
    THEN [view |-> "error", headerIcon |-> "lock",
          message |-> escapeHtml(contents.error),
          retryButton |-> FALSE, certCount |-> 0, hasPrivateKey |-> FALSE,
          privateKeyInfo |-> NoKeyInfo, certificates |-> <<>>]
    ELSE [view |-> "content",
          headerIcon |-> IF contents.isPasswordProtected
                         THEN "lock" ELSE "cert",
          message |-> <<>>, retryButton |-> FALSE,
          certCount |-> Len(contents.certificates),
          hasPrivateKey |-> contents.hasPrivateKey,
          privateKeyInfo |-> contents.privateKeyInfo,
          certificates |-> [i \in 1..Len(contents.certificates) |->
                              renderCertificate(contents.certificates[i])]]

\* PfxEditorProvider.renderContent(contents)
renderContent(contents) ==
    IF Len(contents.error) > 0
    THEN [view |-> "error", headerIcon |-> "lock",
          message |-> escapeHtml(contents.error),
          retryButton |-> TRUE, certCount |-> 0, hasPrivateKey |-> FALSE,
          privateKeyInfo |-> NoKeyInfo, certificates |-> <<>>]
    ELSE [view |-> "content",
          headerIcon |-> IF contents.isPasswordProtected
                         THEN "lock" ELSE "cert",
          message |-> <<>>, retryButton |-> FALSE,
          certCount |-> Len(contents.certificates),
          hasPrivateKey |-> contents.hasPrivateKey,
          privateKeyInfo |-> contents.privateKeyInfo,
          certificates |-> [i \in 1..Len(contents.certificates) |->
                              renderCertificate(contents.certificates[i])]]

\* PfxEditorProvider.getHtmlForWebview(webview, contents, uri)
getHtmlForWebview(contents) == renderContent(contents)

(***************************************************************************)
(* State.                                                                  *)
(***************************************************************************)
VARIABLES
    doc,          \* the PfxDocument of the editor (its data)
    pc,           \* resolveCustomEditor: "start", "prompt" (awaiting
                  \* showInputBox), "resolved" (html set, handler registered)
    pfxContents,  \* the local pfxContents of resolveCustomEditor
    html,         \* webviewPanel.webview.html
    inbox,        \* messages posted by the webview, not yet delivered
    handlers,     \* retry-password handlers awaiting their showInputBox
    clipboard,    \* the text last written by vscode.env.clipboard.writeText
    prompts,      \* history: showInputBox calls so far
    parses,       \* history: parsePfx calls made by the editor so far
    retries,      \* history: clicks on the retry button so far
    failures,     \* history: password attempts whose parse failed
    lastAnswer,   \* history: what the last closed showInputBox returned
    lastPwd,      \* history: the password of the last parsePfx call
    parsedAt,     \* history: the clock at the last parsePfx call
    calls,        \* pure-function specification: the parsePfx calls made
    extracted     \* pure-function specification: the last extractCertInfo
                  \* call and the badge rendered for its result

vars ==
    <<doc, pc, pfxContents, html, inbox, handlers, clipboard, prompts,
      parses, retries, failures, lastAnswer, lastPwd, parsedAt, calls,
      clock, extracted>>

editorVars ==
    <<pc, pfxContents, html, inbox, handlers, clipboard, prompts,
      parses, retries, failures, lastAnswer, lastPwd, parsedAt>>

\* showInputBox resolved with undefined: the user dismissed the prompt
Undefined == "<undefined>"

\* no showInputBox has returned yet / no parsePfx call has been made yet
None == "<none>"

\* what a showInputBox can resolve to
Answers == Passwords \cup {Undefined}

\* the values the copyable elements of a content view post
CopyValues(view) ==
    { <<"serial", view.certificates[i].serialNumber>> :
        i \in 1..Len(view.certificates) }

\* pfxContents before the first parsePfx call
NoContents ==
    [certificates |-> <<>>, hasPrivateKey |-> FALSE,
     privateKeyInfo |-> NoKeyInfo, error |-> NoError,
     isPasswordProtected |-> FALSE]

Init ==
    /\ doc \in Docs
    /\ pc = "start"
    /\ pfxContents = NoContents
    /\ html = BlankHtml
    /\ inbox = <<>>
    /\ handlers = 0
    /\ clipboard = <<>>
    /\ prompts = 0
    /\ parses = 0
    /\ retries = 0
    /\ failures = 0
    /\ lastAnswer = None
    /\ lastPwd = None
    /\ parsedAt = 0
    /\ calls = <<>>
    /\ clock \in Instants
    /\ extracted = <<>>

(***************************************************************************)
(* resolveCustomEditor.                                                    *)
(***************************************************************************)
\* resolveCustomEditor up to its first suspension: the parse without a
\* password, then either the prompt or the assignment of the html
ResolveStart ==
    /\ pc = "start"
    /\ LET first == parsePfx(doc, "") IN
        /\ pfxContents' = first
        /\ parses' = parses + 1
        /\ lastPwd' = ""
        /\ parsedAt' = clock
        /\ IF Len(first.error) > 0 /\ Includes(first.error, NeedlePassword)
           THEN /\ pc' = "prompt"
                /\ prompts' = prompts + 1
                /\ html' = html
           ELSE /\ pc' = "resolved"
                /\ prompts' = prompts
                /\ html' = getHtmlForWebview(first)
    /\ UNCHANGED <<doc, inbox, handlers, clipboard, retries, failures,
                   lastAnswer, calls,
                   clock, extracted>>

\* resolveCustomEditor returning on a cancelled prompt before it assigns
\* the html
ResolveAnswer_CancelBlank(password) ==
    /\ pc = "prompt"
    /\ pc' = "resolved"
    /\ lastAnswer' = password
    /\ IF password # Undefined
       THEN LET second == [parsePfx(doc, password)
                               EXCEPT !.isPasswordProtected = TRUE] IN
            /\ pfxContents' = second
            /\ parses' = parses + 1
            /\ lastPwd' = password
            /\ parsedAt' = clock
            /\ failures' = IF Len(second.error) > 0
                           THEN failures + 1 ELSE failures
            /\ html' = getHtmlForWebview(second)
       ELSE UNCHANGED <<html, pfxContents, parses, lastPwd, parsedAt, failures>>
    /\ UNCHANGED <<doc, inbox, handlers, clipboard, prompts, retries, calls,
                   clock, extracted>>

\* resolveCustomEditor from the return of showInputBox to its end
ResolveAnswer(password) ==
    /\ pc = "prompt"
    /\ pc' = "resolved"
    /\ lastAnswer' = password
    /\ IF password # Undefined
       THEN LET second == [parsePfx(doc, password)
                               EXCEPT !.isPasswordProtected = TRUE] IN
            /\ pfxContents' = second
            /\ parses' = parses + 1
            /\ lastPwd' = password
            /\ parsedAt' = clock
            /\ failures' = IF Len(second.error) > 0
                           THEN failures + 1 ELSE failures
            /\ html' = getHtmlForWebview(second)
       ELSE /\ html' = getHtmlForWebview(pfxContents)
            /\ UNCHANGED <<pfxContents, parses, lastPwd, parsedAt, failures>>
    /\ UNCHANGED <<doc, inbox, handlers, clipboard, prompts, retries, calls,
                   clock, extracted>>

(***************************************************************************)
(* The webview script and the onDidReceiveMessage handler.                 *)
(***************************************************************************)
\* the click listener of .retry-button posts a retry-password message
ClickRetry ==
    /\ pc = "resolved"
    /\ html.retryButton
    /\ retries < MaxRetries
    /\ Len(inbox) < MaxInbox
    /\ inbox' = Append(inbox, [type |-> "retry-password", value |-> <<>>])
    /\ retries' = retries + 1
    /\ UNCHANGED <<doc, pc, pfxContents, html, handlers, clipboard, prompts,
                   parses, failures, lastAnswer, lastPwd, parsedAt, calls,
                   clock, extracted>>

\* the click listener of a .copyable element posts copy-to-clipboard
ClickCopy(value) ==
    /\ pc = "resolved"
    /\ value \in CopyValues(html)
    /\ Len(inbox) < MaxInbox
    /\ inbox' = Append(inbox, [type |-> "copy-to-clipboard", value |-> value])
    /\ UNCHANGED <<doc, pc, pfxContents, html, handlers, clipboard, prompts,
                   parses, retries, failures, lastAnswer, lastPwd, parsedAt, calls,
                   clock, extracted>>

\* onDidReceiveMessage, message.type = 'retry-password', up to the await of
\* showInputBox
ReceiveRetry ==
    /\ pc = "resolved"
    /\ Len(inbox) > 0
    /\ Head(inbox).type = "retry-password"
    /\ inbox' = Tail(inbox)
    /\ handlers' = handlers + 1
    /\ prompts' = prompts + 1
    /\ UNCHANGED <<doc, pc, pfxContents, html, clipboard, parses, retries,
                   failures, lastAnswer, lastPwd, parsedAt, calls,
                   clock, extracted>>

\* the retry handler rendering the contents of resolveCustomEditor
\* instead of the new ones
RetryAnswer_StaleContents(password) ==
    /\ handlers > 0
    /\ handlers' = handlers - 1
    /\ lastAnswer' = password
    /\ IF password # Undefined
       THEN LET newContents == [parsePfx(doc, password)
                                    EXCEPT !.isPasswordProtected = TRUE] IN
            /\ parses' = parses + 1
            /\ lastPwd' = password
            /\ parsedAt' = clock
            /\ failures' = IF Len(newContents.error) > 0
                           THEN failures + 1 ELSE failures
            /\ html' = getHtmlForWebview(pfxContents)
       ELSE UNCHANGED <<html, parses, lastPwd, parsedAt, failures>>
    /\ UNCHANGED <<doc, pc, pfxContents, inbox, clipboard, prompts, retries,
                   calls,
                   clock, extracted>>

\* the retry handler refusing to parse once two attempts have failed
RetryAnswer_Lockout(password) ==
    /\ handlers > 0
    /\ handlers' = handlers - 1
    /\ lastAnswer' = password
    /\ IF password # Undefined /\ failures < 2
       THEN LET newContents == [parsePfx(doc, password)
                                    EXCEPT !.isPasswordProtected = TRUE] IN
            /\ parses' = parses + 1
            /\ lastPwd' = password
            /\ parsedAt' = clock
            /\ failures' = IF Len(newContents.error) > 0
                           THEN failures + 1 ELSE failures
            /\ html' = getHtmlForWebview(newContents)
       ELSE UNCHANGED <<html, parses, lastPwd, parsedAt, failures>>
    /\ UNCHANGED <<doc, pc, pfxContents, inbox, clipboard, prompts, retries,
                   calls,
                   clock, extracted>>

\* the retry handler rendering the contents of resolveCustomEditor again
\* when the prompt is dismissed
RetryAnswer_CancelRerenders(password) ==
    /\ handlers > 0
    /\ handlers' = handlers - 1
    /\ lastAnswer' = password
    /\ IF password # Undefined
       THEN LET newContents == [parsePfx(doc, password)
                                    EXCEPT !.isPasswordProtected = TRUE] IN
            /\ parses' = parses + 1
            /\ lastPwd' = password
            /\ parsedAt' = clock
            /\ failures' = IF Len(newContents.error) > 0
                           THEN failures + 1 ELSE failures
            /\ html' = getHtmlForWebview(newContents)
       ELSE /\ html' = getHtmlForWebview(pfxContents)
            /\ UNCHANGED <<parses, lastPwd, parsedAt, failures>>
    /\ UNCHANGED <<doc, pc, pfxContents, inbox, clipboard, prompts, retries,
                   calls, clock, extracted>>

\* the retry handler without newContents.isPasswordProtected = true
RetryAnswer_NoFlag(password) ==
    /\ handlers > 0
    /\ handlers' = handlers - 1
    /\ lastAnswer' = password
    /\ IF password # Undefined
       THEN LET newContents == parsePfx(doc, password) IN
            /\ parses' = parses + 1
            /\ lastPwd' = password
            /\ parsedAt' = clock
            /\ failures' = IF Len(newContents.error) > 0
                           THEN failures + 1 ELSE failures
            /\ html' = getHtmlForWebview(newContents)
       ELSE UNCHANGED <<html, parses, lastPwd, parsedAt, failures>>
    /\ UNCHANGED <<doc, pc, pfxContents, inbox, clipboard, prompts, retries,
                   calls, clock, extracted>>

\* onDidReceiveMessage, retry-password, from the return of showInputBox
RetryAnswer(password) ==
    /\ handlers > 0
    /\ handlers' = handlers - 1
    /\ lastAnswer' = password
    /\ IF password # Undefined
       THEN LET newContents == [parsePfx(doc, password)
                                    EXCEPT !.isPasswordProtected = TRUE] IN
            /\ parses' = parses + 1
            /\ lastPwd' = password
            /\ parsedAt' = clock
            /\ failures' = IF Len(newContents.error) > 0
                           THEN failures + 1 ELSE failures
            /\ html' = getHtmlForWebview(newContents)
       ELSE UNCHANGED <<html, parses, lastPwd, parsedAt, failures>>
    /\ UNCHANGED <<doc, pc, pfxContents, inbox, clipboard, prompts, retries,
                   calls,
                   clock, extracted>>

\* onDidReceiveMessage, message.type = 'copy-to-clipboard'
ReceiveCopy ==
    /\ pc = "resolved"
    /\ Len(inbox) > 0
    /\ Head(inbox).type = "copy-to-clipboard"
    /\ inbox' = Tail(inbox)
    /\ clipboard' = Head(inbox).value
    /\ UNCHANGED <<doc, pc, pfxContents, html, handlers, prompts, parses,
                   retries, failures, lastAnswer, lastPwd, parsedAt, calls,
                   clock, extracted>>

\* time passes
Tick ==
    /\ clock' \in {instant \in Instants : instant > clock}
    /\ UNCHANGED <<doc, calls, extracted>>
    /\ UNCHANGED editorVars

Next ==
    \/ ResolveStart
    \/ \E password \in Answers : ResolveAnswer(password)
    \/ ClickRetry
    \/ \E value \in {<<"serial", c.serial>> : c \in Certs} : ClickCopy(value)
    \/ ReceiveRetry
    \/ \E password \in Answers : RetryAnswer(password)
    \/ ReceiveCopy
    \/ Tick

Spec == Init /\ [][Next]_vars

(***************************************************************************)
(* parsePfx as a pure function: calls on one document with passwords       *)
(* drawn from Passwords, the editor left alone.                            *)
(***************************************************************************)
InitParse == Init

\* a parsePfx that reads the bytes out of a buffer kept between calls, so
\* that a second call finds it empty
ParseCall_ConsumesBuffer(password) ==
    /\ Len(calls) < MaxCalls
    /\ calls' = Append(calls,
                       [password |-> password, now |-> clock,
                        result |-> IF calls = <<>>
                                   THEN parsePfx(doc, password)
                                   ELSE parsePfx(MakeDoc("empty", FALSE, FALSE,
                                                         "", "none", NoBags),
                                                 password)])
    /\ UNCHANGED <<doc, clock, extracted>>
    /\ UNCHANGED editorVars

\* one parsePfx(document.data, password) call, its result recorded
ParseCall(password) ==
    /\ Len(calls) < MaxCalls
    /\ calls' = Append(calls, [password |-> password, now |-> clock,
                               result |-> parsePfx(doc, password)])
    /\ UNCHANGED <<doc, clock, extracted>>
    /\ UNCHANGED editorVars

NextParse ==
    \/ \E password \in Passwords : ParseCall(password)
    \/ Tick

SpecParse == InitParse /\ [][NextParse]_vars

(***************************************************************************)
(* extractCertInfo and the status badge as functions of the certificate    *)
(* and the clock: calls on certificates drawn from CertPool.               *)
(***************************************************************************)
\* no editor is involved: the document is one of the small ones
InitCert == Init /\ doc \in StructureDocs

\* one extractCertInfo(cert) call; when it returns, the badge that
\* renderCertificate shows for the result
ExtractCall(cert) ==
    /\ LET result == extractCertInfo(cert) IN
        extracted' = <<[cert |-> cert, now |-> clock, result |-> result,
                        card |-> IF result.threw THEN <<>>
                                 ELSE <<renderCertificate(result.value)>>]>>
    /\ UNCHANGED <<doc, calls, clock>>
    /\ UNCHANGED editorVars

NextCert ==
    \/ \E cert \in CertPool : ExtractCall(cert)
    \/ Tick

SpecCert == InitCert /\ [][NextCert]_vars

(***************************************************************************)
(* What a document is, said from its fields.                               *)
(***************************************************************************)
\* the error the library reports for the document with this password
\* (<<>> when it reads the container)
LibraryError(d, password) ==
    IF fromDer(d).threw THEN fromDer(d).message
    ELSE IF pkcs12FromAsn1(d, TRUE, password).threw
              /\ pkcs12FromAsn1(d, FALSE, password).threw
         THEN pkcs12FromAsn1(d, TRUE, password).message
         ELSE <<>>

\* the container is well formed and this password opens it
OpensWith(d, password) ==
    /\ d.form = "pfx"
    /\ d.flaw \in {"none", "lenient"}
    /\ (d.hasMac \/ d.encrypted) => password = d.password
    /\ \A i \in 1..Len(d.shroudedKeyBags) :
           d.shroudedKeyBags[i].password = password
    /\ \A i \in 1..Len(d.certBags) :
           d.certBags[i].cert # NoCert
               => d.certBags[i].cert.notAfter # InvalidTime

\* the MAC of the container does not verify under this password
MacMismatch(d, password) ==
    /\ d.form = "pfx"
    /\ d.hasMac
    /\ d.flaw # "macAlg"
    /\ password # d.password

\* the failure is an integrity-check or decryption error
IntegrityOrDecryptError(d, password) ==
    LibraryError(d, password) \in {MsgMac, MsgDecrypt, MsgShrouded}

\* the failure is a structural decode error
StructuralError(d, password) ==
    LibraryError(d, password)
        \in {MsgTooFewBytes, MsgTooFewValue, MsgUnparsed, MsgNotPfx,
             MsgVersion}

\* the certificate bags of the document that hold a certificate
CertBagCount(d) ==
    Cardinality({i \in 1..Len(d.certBags) : d.certBags[i].cert # NoCert})

(***************************************************************************)
(* Claims about the password retry flow (specification Spec).              *)
(***************************************************************************)
\* C1: the first parse uses the empty password, and when it succeeds the
\* successful result is displayed at once and no password is ever requested.
C1_EmptyPasswordSuccess ==
    /\ parses = 1 => lastPwd = ""
    /\ (pc # "start" /\ OpensWith(doc, ""))
         => /\ pc = "resolved"
            /\ html.view = "content"
            /\ html.headerIcon = "cert"
            /\ html.certCount = CertBagCount(doc)
            /\ prompts = 0
            /\ parses = 1

C1_Witness ==
    /\ pc = "resolved"
    /\ OpensWith(doc, "")
    /\ html.certCount > 0
    /\ clipboard # <<>>

\* C2: when the first (empty password) parse fails with an integrity-check
\* or decryption error, a password is requested before anything is
\* displayed.
C2_IntegrityFailureAsksPassword ==
    (pc # "start" /\ IntegrityOrDecryptError(doc, ""))
      => /\ prompts >= 1
         /\ pc = "prompt" => (html = BlankHtml /\ prompts = 1)
         /\ html # BlankHtml => lastAnswer # None

C2_Witness ==
    /\ pc = "prompt"
    /\ IntegrityOrDecryptError(doc, "")
    /\ html = BlankHtml

\* C3: when the first (empty password) parse fails with a structural decode
\* error, no password is ever requested and no further parse is attempted.
C3_MalformedIsTerminal ==
    StructuralError(doc, "") => (prompts = 0 /\ parses <= 1)

\* a showInputBox is closed by this step and returned undefined
CancelStep ==
    /\ lastAnswer' = Undefined
    /\ \/ pc = "prompt" /\ pc' = "resolved"
       \/ handlers' = handlers - 1

\* C4 as claimed: once the caller has cancelled password entry, no later
\* event leads to another password request or parse attempt.
C4_CancelIsTerminal ==
    [][lastAnswer = Undefined => (prompts' = prompts /\ parses' = parses)]_vars

\* C4 as amended: cancelling password entry attempts no parse for that
\* prompt and displays the error with its retry button (at open) or leaves
\* the display as it was (on a retry), so that a retry stays possible.
C4_CancelKeepsErrorView ==
    [][CancelStep =>
         /\ parses' = parses
         /\ lastPwd' = lastPwd
         /\ pc = "prompt" => (html'.view = "error" /\ html'.retryButton)
         /\ pc = "resolved" => html' = html]_vars

C4_Witness ==
    /\ lastAnswer = Undefined
    /\ pc = "resolved"
    /\ html.view = "error"
    /\ html.retryButton
    /\ prompts >= 2

\* C5: a password attempt that fails with a password-class error reports
\* the invalid-password error and leaves the retry button in the view.
C5_WrongPasswordStaysAwaiting ==
    (pc = "resolved" /\ parses >= 2 /\ IntegrityOrDecryptError(doc, lastPwd))
      => /\ html.view = "error"
         /\ html.message = PasswordErrorText
         /\ html.retryButton

C5_Witness ==
    /\ pc = "resolved"
    /\ parses >= 3
    /\ failures >= 2
    /\ IntegrityOrDecryptError(doc, lastPwd)
    /\ html.retryButton

\* C6: a password attempt whose parse succeeds displays the result of that
\* parse: the certificates and the private key of the document, not the
\* earlier error.
C6_RightPasswordShowsContent ==
    (pc = "resolved" /\ parses >= 2 /\ OpensWith(doc, lastPwd))
      => /\ html.view = "content"
         /\ html.message = <<>>
         /\ ~html.retryButton
         /\ html.headerIcon = "lock"
         /\ html.certCount = CertBagCount(doc)
         /\ html.hasPrivateKey
              = (Len(doc.shroudedKeyBags) + Len(doc.keyBags) > 0)

C6_Witness ==
    /\ pc = "resolved"
    /\ failures >= 1
    /\ OpensWith(doc, lastPwd)
    /\ html.view = "content"
    /\ html.certCount > 0

\* C7: after any number of failed attempts a further attempt is accepted,
\* and what it displays is what a fresh parsePfx call with that password
\* returns at that instant, whatever the earlier attempts were.
C7_RetryUnboundedStateless ==
    /\ (pc = "resolved" /\ lastAnswer \in Passwords /\ parsedAt = clock)
         => html = getHtmlForWebview(
                     [parsePfx(doc, lastAnswer)
                        EXCEPT !.isPasswordProtected = TRUE])
    /\ (pc = "resolved" /\ html.view = "error"
          /\ retries < MaxRetries /\ Len(inbox) < MaxInbox)
         => ENABLED ClickRetry

C7_Witness ==
    /\ failures >= 3
    /\ handlers = 0
    /\ html.view = "error"

IncorrectPassword(d, password) ==
    /\ \E good \in Passwords : OpensWith(d, good)
    /\ ~OpensWith(d, password)

\* C9: an incorrect non-empty password on a container yields the password
\* error, never the generic failed-to-parse error.
C9_WrongPasswordIsPasswordError ==
    \A i \in 1..Len(calls) :
        (calls[i].password # "" /\ IncorrectPassword(doc, calls[i].password))
          => /\ calls[i].result.error = PasswordErrorText
             /\ ~Includes(calls[i].result.error, FailedPrefix)

C9_Witness ==
    \E i \in 1..Len(calls) :
        /\ calls[i].password # ""
        /\ IncorrectPassword(doc, calls[i].password)
        /\ ~doc.hasMac
        /\ calls[i].result.error = PasswordErrorText

\* C10: an empty byte buffer yields the failed-to-parse error with any
\* password: never a success, never the password error that opens a prompt.
C10_EmptyBufferMalformed ==
    doc.form = "empty"
      => \A i \in 1..Len(calls) :
             /\ Len(calls[i].result.error) > 0
             /\ Includes(calls[i].result.error, FailedPrefix)
             /\ calls[i].result.error # PasswordErrorText
             /\ ~Includes(calls[i].result.error, NeedlePassword)
             /\ calls[i].result.certificates = <<>>
             /\ ~calls[i].result.hasPrivateKey

C10_Witness ==
    /\ doc.form = "empty"
    /\ \E i \in 1..Len(calls) : calls[i].password # ""
    /\ \E i \in 1..Len(calls) : calls[i].password = ""

\* C11: an outcome of parsePfx with its error set has no certificates and
\* no private key, and the view rendered for it has no certificate section.
C11_FailedParseCarriesNothing ==
    \A i \in 1..Len(calls) :
        Len(calls[i].result.error) > 0
          => /\ calls[i].result.certificates = <<>>
             /\ ~calls[i].result.hasPrivateKey
             /\ calls[i].result.privateKeyInfo = NoKeyInfo
             /\ renderContent(calls[i].result).view = "error"
             /\ renderContent(calls[i].result).certificates = <<>>
             /\ renderContent(calls[i].result).certCount = 0
             /\ ~renderContent(calls[i].result).hasPrivateKey

\* the parse failed on the second certificate, after the first one was
\* extracted, in a container that has a private key
C11_Witness ==
    \E i \in 1..Len(calls) :
        /\ calls[i].result.error = FailedPrefix \o MsgInvalidTime
        /\ Len(doc.certBags) = 2
        /\ ~extractCertInfoAt(doc.certBags[1].cert, calls[i].now).threw
        /\ Len(doc.shroudedKeyBags) > 0

\* C12: with a shrouded key bag and a plain key bag in the container, the
\* private-key information reported is that of the first shrouded bag.
C12_ShroudedKeyBagWins ==
    \A i \in 1..Len(calls) :
        ( /\ calls[i].result.error = NoError
          /\ Len(doc.shroudedKeyBags) > 0
          /\ Len(doc.keyBags) > 0 )
          => /\ calls[i].result.hasPrivateKey
             /\ calls[i].result.privateKeyInfo
                  = ShroudedKeyInfo(doc.shroudedKeyBags, NoKeyInfo)

\* the container opens with this password, but the key of one of its
\* shrouded key bags is encrypted under another one
UndecryptableKey(d, password) ==
    /\ d.form = "pfx"
    /\ d.flaw \in {"none", "lenient"}
    /\ (d.hasMac \/ d.encrypted) => password = d.password
    /\ \E i \in 1..Len(d.shroudedKeyBags) :
           d.shroudedKeyBags[i].password # password
    /\ \A i \in 1..Len(d.certBags) :
           d.certBags[i].cert # NoCert
               => d.certBags[i].cert.notAfter # InvalidTime

\* C13: a shrouded key bag whose key cannot be decrypted leaves the parse
\* a success with all certificates and the key reported present, encrypted.
C13_UndecryptableKeyStillSucceeds ==
    \A i \in 1..Len(calls) :
        UndecryptableKey(doc, calls[i].password)
          => /\ calls[i].result.error = NoError
             /\ Len(calls[i].result.certificates) = CertBagCount(doc)
             /\ calls[i].result.hasPrivateKey
             /\ calls[i].result.privateKeyInfo = EncryptedKeyInfo

\* the certificates of the bags that hold one, in the order of the bags
CertsInBagOrder(d) ==
    LET HasCert(bag) == bag.cert # NoCert
        held == SelectSeq(d.certBags, HasCert)
    IN  [k \in 1..Len(held) |-> held[k].cert]

\* C14: the certificates of a successful outcome are those of the bags
\* that hold a certificate, one each, in the order of the bags.
C14_CertificatesInBagOrder ==
    \A i \in 1..Len(calls) :
        calls[i].result.error = NoError
          => /\ Len(calls[i].result.certificates)
                  = Len(CertsInBagOrder(doc))
             /\ \A k \in 1..Len(CertsInBagOrder(doc)) :
                    calls[i].result.certificates[k]
                      = extractCertInfoAt(CertsInBagOrder(doc)[k],
                                          calls[i].now).value

\* three bags, the middle one without a certificate, the outer ones with
\* different certificates
C14_Witness ==
    \E i \in 1..Len(calls) :
        /\ calls[i].result.error = NoError
        /\ Len(doc.certBags) = 3
        /\ doc.certBags[2].cert = NoCert
        /\ Len(calls[i].result.certificates) = 2
        /\ calls[i].result.certificates[1].serialNumber
             # calls[i].result.certificates[2].serialNumber

(***************************************************************************)
(* Claims about extractCertInfo and the status badge (specification        *)
(* SpecCert).                                                              *)
(***************************************************************************)
\* the extractCertInfo calls that returned a CertificateInfo
Returned == {i \in 1..Len(extracted) : ~extracted[i].result.threw}

\* C15: isExpired is true exactly when notAfter is strictly earlier than
\* the instant of the call; with notAfter at that instant it is false.
C15_ExpiredIffStrictlyPast ==
    \A i \in Returned :
        LET e == extracted[i] IN
        /\ e.result.value.isExpired <=> e.now - e.cert.notAfter >= 1
        /\ e.cert.notAfter = e.now => ~e.result.value.isExpired

C15_Witness ==
    \E i \in Returned :
        /\ extracted[i].cert.notAfter = extracted[i].now
        /\ ~extracted[i].result.value.isExpired

\* C16 as claimed: the badge is expired when isExpired, expiring soon
\* exactly when not expired and 0 < daysUntilExpiry <= 30, valid otherwise.
C16_BandsAsClaimed ==
    \A i \in Returned :
        LET info == extracted[i].result.value
            shown == extracted[i].card[1].statusClass
        IN  /\ shown = "expired" <=> info.isExpired
            /\ shown = "expiring-soon"
                 <=> ( /\ ~info.isExpired
                       /\ 0 < info.daysUntilExpiry
                       /\ info.daysUntilExpiry <= 30 )
            /\ shown \in {"expired", "expiring-soon", "valid"}

\* C16: the badge is expired when isExpired, expiring soon exactly when
\* not expired and daysUntilExpiry <= 30 (0 included: notAfter at the
\* instant of the call), valid otherwise.
C16_Bands ==
    \A i \in Returned :
        LET info == extracted[i].result.value
            shown == extracted[i].card[1].statusClass
        IN  /\ shown = "expired" <=> info.isExpired
            /\ shown = "expiring-soon"
                 <=> (~info.isExpired /\ info.daysUntilExpiry <= 30)
            /\ shown = "valid"
                 <=> (~info.isExpired /\ info.daysUntilExpiry > 30)
            /\ (~info.isExpired /\ info.daysUntilExpiry = 0)
                 => /\ extracted[i].cert.notAfter = extracted[i].now
                    /\ shown = "expiring-soon"

C16_Witness ==
    \E i \in Returned :
        /\ ~extracted[i].result.value.isExpired
        /\ extracted[i].result.value.daysUntilExpiry = 0
        /\ extracted[i].card[1].statusClass = "expiring-soon"

\* C17 as claimed: isExpired implies daysUntilExpiry < 0.
C17_ExpiredDaysNegative ==
    \A i \in Returned :
        extracted[i].result.value.isExpired
          => extracted[i].result.value.daysUntilExpiry < 0

\* C17: isExpired implies daysUntilExpiry <= 0, and daysUntilExpiry is
\* negative exactly when notAfter is a full day or more before the call.
C17_ExpiredDaysNotPositive ==
    \A i \in Returned :
        LET e == extracted[i] IN
        /\ e.result.value.isExpired => e.result.value.daysUntilExpiry <= 0
        /\ e.result.value.daysUntilExpiry < 0
             <=> e.now - e.cert.notAfter >= DayLength

C17_Witness ==
    \E i \in Returned :
        /\ extracted[i].result.value.isExpired
        /\ extracted[i].result.value.daysUntilExpiry = 0

\* C18: notAfter exactly 30 days after the call gives the expiring-soon
\* badge, and any notAfter more than 30 days after it (31 days among them)
\* gives the valid badge.
C18_ThirtyDayBoundary ==
    \A i \in Returned :
        LET e == extracted[i]
            shown == extracted[i].card[1].statusClass
        IN  /\ e.cert.notAfter - e.now = 30 * DayLength
                 => shown = "expiring-soon"
            /\ e.cert.notAfter - e.now = 31 * DayLength => shown = "valid"
            /\ e.cert.notAfter - e.now > 30 * DayLength => shown = "valid"

C18_Witness ==
    \E i \in Returned :
        /\ extracted[i].cert.notAfter - extracted[i].now = 30 * DayLength
        /\ extracted[i].card[1].statusClass = "expiring-soon"

\* the characters of a string kept as pieces are not all gone
NonEmptyString(pieces) ==
    /\ Len(pieces) > 0
    /\ \A k \in 1..Len(pieces) : pieces[k] # ""

\* C19: the extensions of a CertificateInfo are those of the certificate,
\* one entry each in the same order, labelled with the name or else the
\* OID, each with a non-empty value.
C19_ExtensionsNeverDropped ==
    \A i \in Returned :
        LET given == extracted[i].cert.extensions
            listed == extracted[i].result.value.extensions
        IN  /\ Len(listed) = Len(given)
            /\ \A k \in 1..Len(given) :
                   /\ given[k].name # "" => listed[k].name = given[k].name
                   /\ given[k].name = "" => listed[k].name = given[k].id
                   /\ listed[k].name # ""
                   /\ NonEmptyString(listed[k].value)

\* an extension without a name and with an empty value is listed under
\* its OID
C19_Witness ==
    \E i \in Returned :
        \E k \in 1..Len(extracted[i].cert.extensions) :
            /\ extracted[i].cert.extensions[k].name = ""
            /\ extracted[i].cert.extensions[k].value = ""
            /\ extracted[i].result.value.extensions[k].name
                 = extracted[i].cert.extensions[k].id
            /\ extracted[i].result.value.extensions[k].value
                 = <<"(empty)">>

\* how the claim has a purpose of an extKeyUsage extension shown: by its
\* text when it is one of the five, else by its OID
PurposeShown(purpose) ==
    LET Known(entry) == entry[1] = purpose
        known == SelectSeq(ExtKeyUsageTexts, Known)
    IN  IF Len(known) > 0 THEN known[1][2] ELSE purpose

\* C20: every purpose of an extKeyUsage extension appears in its value,
\* the five known ones by name and every other one as its OID.
C20_EveryPurposeShown ==
    \A i \in Returned :
        \A k \in 1..Len(extracted[i].cert.extensions) :
            extracted[i].cert.extensions[k].name = "extKeyUsage"
              => \A purpose \in extracted[i].cert.extensions[k].flags :
                     \E n \in 1..Len(extracted[i].result.value
                                        .extensions[k].value) :
                         extracted[i].result.value.extensions[k].value[n]
                           = PurposeShown(purpose)

\* the pieces of a string kept as pieces
Pieces(value) == {value[n] : n \in 1..Len(value)}

\* C21: the value of a basicConstraints extension tells the CA flag and,
\* when the extension has a path length constraint, that constraint, for
\* a CA and for a certificate that is none.
C21_PathLengthAlwaysShown ==
    \A i \in Returned :
        \A k \in 1..Len(extracted[i].cert.extensions) :
            LET ext == extracted[i].cert.extensions[k]
                shown == Pieces(extracted[i].result.value.extensions[k].value)
            IN  ext.name = "basicConstraints"
                  => /\ ext.cA => "CA: true" \in shown
                     /\ ~ext.cA => "CA: false" \in shown
                     /\ ext.pathLenConstraint # NoPathLen
                          => ToString(ext.pathLenConstraint) \in shown

\* the names under which the attributes of a distinguished name are kept
NamesOf(attributes) ==
    {AttributeName(attributes[n]) : n \in 1..Len(attributes)}

\* the value of the last attribute kept under this name
LastValue(attributes, name) ==
    LET last == CHOOSE n \in 1..Len(attributes) :
                    /\ AttributeName(attributes[n]) = name
                    /\ \A m \in (n + 1)..Len(attributes) :
                           AttributeName(attributes[m]) # name
    IN  attributes[last].value

\* the mapping has one entry per name of the attributes, with the value
\* of the last attribute of that name
LastWins(object, attributes) ==
    /\ Len(object) = Cardinality(NamesOf(attributes))
    /\ \A name \in NamesOf(attributes) :
           \E p \in 1..Len(object) :
               /\ object[p].name = name
               /\ object[p].value = LastValue(attributes, name)
    /\ \A n \in 1..Len(attributes) :
           AttributeName(attributes[n])
             = IF attributes[n].shortName # "" THEN attributes[n].shortName
               ELSE IF attributes[n].name # "" THEN attributes[n].name
               ELSE attributes[n].type

\* C22: subject and issuer are kept as a mapping with one entry per
\* attribute key (shortName, else name, else type), whose value is that
\* of the last attribute with the key.
C22_LastAttributeWins ==
    \A i \in Returned :
        /\ LastWins(extracted[i].result.value.subject,
                    extracted[i].cert.subject)
        /\ LastWins(extracted[i].result.value.issuer,
                    extracted[i].cert.issuer)

\* a subject with two attributes under one key and different values
C22_Witness ==
    \E i \in Returned :
        \E n, m \in 1..Len(extracted[i].cert.subject) :
            /\ n < m
            /\ AttributeName(extracted[i].cert.subject[n])
                 = AttributeName(extracted[i].cert.subject[m])
            /\ extracted[i].cert.subject[n].value
                 # extracted[i].cert.subject[m].value
            /\ LastWins(extracted[i].result.value.subject,
                        extracted[i].cert.subject)
            /\ Len(extracted[i].result.value.subject)
                 < Len(extracted[i].cert.subject)

WithoutExpiry(contents) ==
    [contents EXCEPT !.certificates =
        [k \in 1..Len(contents.certificates) |->
            [contents.certificates[k]
                EXCEPT !.isExpired = FALSE, !.daysUntilExpiry = 0]]]

WithMacData(d) == [d EXCEPT !.hasMac = TRUE]

\* C24: the outcome of a successful parse of a container without MacData
\* differs from the outcome for the same container with a valid MacData,
\* and so does the view rendered for it.
C24_MissingMacSurfaced ==
    \A i \in 1..Len(calls) :
        ( /\ calls[i].result.error = NoError
          /\ ~doc.hasMac
          /\ calls[i].password = doc.password
          /\ calls[i].now = clock )
          => /\ calls[i].result
                  # parsePfx(WithMacData(doc), calls[i].password)
             /\ renderContent(calls[i].result)
                  # renderContent(parsePfx(WithMacData(doc),
                                           calls[i].password))

(***************************************************************************)
(* More claims about the editor (specification Spec).                      *)
(***************************************************************************)
\* C25: once the content of a successful parse is displayed, no step
\* replaces it with an error view.
C25_SuccessIsNeverReplaced ==
    [][(pc = "resolved" /\ html.view = "content")
         => html'.view = "content"]_vars

\* C26: resolveCustomEditor opens its password prompt exactly when the
\* parse with the empty password returned the password error; an outcome
\* with the failed-to-parse error never opens it.
C26_PromptIffPasswordError ==
    [][(pc = "start" /\ pc' # "start")
         => /\ pc' = "prompt"
                 <=> parsePfx(doc, "").error = PasswordErrorText
            /\ Includes(parsePfx(doc, "").error, FailedPrefix)
                 => pc' # "prompt"]_vars

\* C27: a retry prompt that is dismissed leads to no parse and leaves the
\* displayed content as it was, and so does a copy-to-clipboard message.
C27_CancelAndCopyKeepDisplay ==
    [][ /\ (handlers' = handlers - 1 /\ lastAnswer' = Undefined)
             => /\ html' = html
                /\ parses' = parses
                /\ pfxContents' = pfxContents
        /\ ( /\ Len(inbox) > 0
             /\ Head(inbox).type = "copy-to-clipboard"
             /\ inbox' = Tail(inbox) )
             => /\ html' = html
                /\ parses' = parses
                /\ pfxContents' = pfxContents
                /\ clipboard' = Head(inbox).value ]_vars

\* a value was copied from a content view, and after that the prompt of a
\* retry-password message still in flight was dismissed
C27_Witness ==
    /\ lastAnswer = Undefined
    /\ html.view = "content"
    /\ html.headerIcon = "lock"
    /\ clipboard # <<>>
    /\ retries > 0
    /\ handlers = 0

\* C28: a displayed successful result has the lock icon exactly when the
\* parse of the document with the empty password fails; a document that
\* opens with the empty password is never shown with the lock.
C28_LockIffEmptyPasswordFails ==
    (pc = "resolved" /\ html.view = "content")
      => /\ html.headerIcon = "lock" <=> Len(parsePfx(doc, "").error) > 0
         /\ OpensWith(doc, "") => html.headerIcon = "cert"

\* the content shown after a retry, with the lock
C28_Witness ==
    /\ pc = "resolved"
    /\ html.view = "content"
    /\ html.headerIcon = "lock"
    /\ retries > 0
    /\ lastAnswer \in Passwords
    /\ html.certCount > 0

\* the fields of a PfxContents
PfxContentsFields ==
    {"certificates", "hasPrivateKey", "privateKeyInfo", "error",
     "isPasswordProtected"}

\* one of the two pkcs12FromAsn1 attempts reads the container
SomeAttemptSucceeds(d, password) ==
    /\ ~fromDer(d).threw
    /\ \/ ~pkcs12FromAsn1(fromDer(d).value, FALSE, password).threw
       \/ ~pkcs12FromAsn1(fromDer(d).value, TRUE, password).threw

\* extractCertInfo returns for the certificate of every bag that has one
ExtractionSucceeds(d, now) ==
    \A k \in 1..Len(d.certBags) :
        d.certBags[k].cert # NoCert
            => ~extractCertInfoAt(d.certBags[k].cert, now).threw

\* C29: every parsePfx call returns a PfxContents; it is a success when
\* one of the two pkcs12FromAsn1 attempts and the extraction of every
\* certificate succeed, and an error outcome when a step fails.
C29_ParsePfxIsTotal ==
    \A i \in 1..Len(calls) :
        /\ DOMAIN calls[i].result = PfxContentsFields
        /\ calls[i].result.error = NoError
             <=> ( /\ SomeAttemptSucceeds(doc, calls[i].password)
                   /\ ExtractionSucceeds(doc, calls[i].now) )
        /\ calls[i].result.error # NoError
             => \/ calls[i].result.error = PasswordErrorText
                \/ Includes(calls[i].result.error, FailedPrefix)

\* a success through the non-strict attempt on a container the strict
\* one rejects, and an error outcome for another password
C29_Witness ==
    /\ \E i \in 1..Len(calls) :
           /\ calls[i].result.error = NoError
           /\ pkcs12FromAsn1(doc, TRUE, calls[i].password).threw
           /\ Len(calls[i].result.certificates) > 0
    /\ \E i \in 1..Len(calls) :
           /\ ~SomeAttemptSucceeds(doc, calls[i].password)
           /\ calls[i].result.error # NoError

====
